---- MODULE Spec2Model ----
(***************************************************************************)
(* Model of core/json_argparse.py: JSONArgumentParser, an                  *)
(* argparse.ArgumentParser whose constructor loads a JSON schema and       *)
(* registers the parser options, the arguments and the groups it holds.    *)
(*                                                                         *)
(* A Python dict is a function whose domain is its set of keys; a dict     *)
(* that is iterated (arguments, groups) is the sequence of its items, in   *)
(* insertion order, each item a record [name, kwargs].  The engine         *)
(* (argparse) is modelled by what its calls do to the parser object.       *)
(***************************************************************************)
EXTENDS Integers, Sequences, FiniteSets, TLC

VARIABLES
    source,      \* the json_file argument of the constructor
    init_args,   \* the *args of the constructor
    init_kwargs, \* the **kwargs of the constructor
    pc,          \* position in __init__
    json_data,   \* self.json_data; its nested dicts are shared with the copy
    loaded,      \* the document as _load_json returned it
    parser,      \* the engine's state of self
    error,       \* the exception that left __init__ ("none": none)
    returned,    \* the caller holds the constructed object
    calls,       \* the methods __init__ has called so far, in order
    tried,       \* what _load_json has tried to read the source as, in order
    opened_file, \* the file that _load_json opened: not opened, open, closed
    handle,      \* the file object the caller passed: none, open, closed
    tokens,      \* the argument list of the last parse_args call
    namespace,   \* what that call returned
    parse_error  \* how that call failed ("none": it did not)

vars == <<source, init_args, init_kwargs, pc, json_data, loaded, parser, error, returned, calls,
          tried, opened_file, handle, tokens, namespace, parse_error>>

----------------------------------------------------------------------------
(* dicts *)

EmptyDict == [k \in {} |-> 0]

\* d.get(k): d[k] when k is a key, the default otherwise
Get(d, k, default) == IF k \in DOMAIN d THEN d[k] ELSE default

\* d after d.pop(k, ...)
Pop(d, k) == [j \in DOMAIN d \ {k} |-> d[j]]

\* d after d[k] = v
Put(d, k, v) == [j \in DOMAIN d \cup {k} |-> IF j = k THEN v ELSE d[j]]

Item(n, kw) == [name |-> n, kwargs |-> kw]

\* the elements of a sequence
Range(s) == {s[i] : i \in DOMAIN s}

\* a JSON array where the code expects a dict: "[1]", which is truthy, or
\* "[]", which is falsy.  Where the dict is a function it is the function
\* with the one key "json"; where the dict is a sequence of items it is
\* the one item of that name whose kwargs is such a function.
Array(kind) == [json |-> kind]
ArrayItems(name, kind) == <<Item(name, Array(kind))>>
IsArray(d) == "json" \in DOMAIN d
IsArrayItems(items) == items # <<>> /\ IsArray(items[1].kwargs)

\* bool(value) is False: the empty dict and the empty list
Falsy(d) == d = EmptyDict \/ (IsArray(d) /\ d.json = "[]")
FalsyItems(items) ==
    items = <<>> \/ (IsArrayItems(items) /\ items[1].kwargs.json = "[]")

----------------------------------------------------------------------------
(* bounds *)

\* argument definitions in one document, flat and group members together
MaxArgs == 2

\* tokens in one parse_args call
MaxTokens == 2

----------------------------------------------------------------------------
(* names and tokens: a string is the number of leading "-" and the rest *)

Long(w)  == [dashes |-> 2, word |-> w]     \* "--w"
Short(w) == [dashes |-> 1, word |-> w]     \* "-w"
Plain(w) == [dashes |-> 0, word |-> w]     \* "w"

\* option_string.lstrip("-")
Lstrip(s) == s.word

----------------------------------------------------------------------------
(* the schema documents the constructor is given *)

StoreTrue == [action |-> "store_true"]

\* items of an "arguments" mapping
Entries ==
    { Item(Long("x"), [action |-> "store_true", aliases |-> <<Short("x")>>]),
      Item(Long("a"), StoreTrue),
      Item(Long("b"), StoreTrue),
      Item(Short("c"), [action |-> "store_true",
                        aliases |-> <<Long("cc"), Short("x")>>]),
      Item(Long("d"), [action |-> "store_true",
                       aliases |-> <<Short("d"), Long("dd")>>]),
      Item(Long("r"), [nargs |-> "argparse.REMAINDER"]),
      Item(Long("r"), [nargs |-> "..."]),
      Item(Long("q"), [nargs |-> "?", aliases |-> <<>>]),
      Item(Plain("p"), EmptyDict),
      Item(Plain("p"), [aliases |-> <<Plain("q")>>]) }

\* the "parser" sub-tree
ParserOptions ==
    { EmptyDict,
      [prog |-> "p"],
      [prog |-> "p", conflict_handler |-> "resolve"],
      [prog |-> "p", bogus |-> "b"] }

\* a group definition without its "arguments"
GroupOptions ==
    { EmptyDict,
      [mutually_exclusive |-> TRUE],
      [mutually_exclusive |-> FALSE, title |-> "t"],
      [mutually_exclusive |-> TRUE, title |-> "t"] }

\* the mappings of k items with distinct keys
ArgMaps(k) ==
    { s \in [1..k -> Entries] :
        \A i, j \in 1..k : i # j => s[i].name # s[j].name }

\* the group definitions holding k arguments
GroupDefs(k) ==
    IF k = 0 THEN GroupOptions
    ELSE { Put(o, "arguments", m) : o \in GroupOptions, m \in ArgMaps(k) }

\* the "groups" mappings holding t arguments in all: one group "g", or two
\* groups "g" and "h" that both hold arguments
GroupMaps(t) ==
    { <<Item("g", d)>> : d \in GroupDefs(t) } \cup
    UNION { { <<Item("g", d), Item("h", e)>> :
                d \in GroupDefs(k), e \in GroupDefs(t - k) } : k \in 1..(t - 1) }

\* a document with f flat arguments and t group members; a key whose
\* mapping would be empty is left out
DocumentsOf(b, f, t) ==
    LET WithArgs == IF f = 0 THEN {b}
                    ELSE { Put(b, "arguments", m) : m \in ArgMaps(f) }
    IN  (IF t = 0 THEN WithArgs ELSE {}) \cup
        { Put(a, "groups", gs) : a \in WithArgs, gs \in GroupMaps(t) }

\* the documents: every key of the top level is optional
Documents ==
    UNION { UNION { DocumentsOf(x[1], x[2], t) : t \in 0..(MaxArgs - x[2]) } :
              x \in ({EmptyDict} \cup {[parser |-> o] : o \in ParserOptions})
                    \X (0..MaxArgs) }

----------------------------------------------------------------------------
(* the sources a document is loaded from *)

\* serialized text: JSON that decodes to doc, or text that is no JSON
Dumps(d) == [valid |-> TRUE, doc |-> d]
NotJson  == [valid |-> FALSE, doc |-> EmptyDict]

\* a decoded document, passed as it is
DocumentSource(d) == [kind |-> "document", doc |-> d]

\* an open handle: read() gives the text
HandleSource(t) == [kind |-> "handle", text |-> t]

\* a str: its own text; whether it is longer than a file name may be; and
\* the file of that name, if there is one, with its content
StrSource(t, long, file, content) ==
    [kind |-> "str", text |-> t, long |-> long, file |-> file,
     content |-> content]

PathSource(content) == StrSource(NotJson, FALSE, TRUE, content)
TextSource(t, long) == StrSource(t, long, FALSE, NotJson)

\* None
NoneSource == [kind |-> "none"]

\* the documents every source form is tried on
FormDocuments ==
    { EmptyDict,
      [parser |-> [prog |-> "p"]],
      [arguments |-> <<Item(Long("x"),
          [action |-> "store_true", aliases |-> <<Short("x")>>])>>],
      [parser |-> [prog |-> "p"],
       arguments |-> <<Item(Long("x"),
          [action |-> "store_true", aliases |-> <<Short("x")>>])>>],
      [parser |-> [prog |-> "p"],
       groups |-> <<Item("g", [mutually_exclusive |-> TRUE,
          arguments |-> <<Item(Long("a"), StoreTrue),
                          Item(Long("b"), StoreTrue)>>])>>] }

\* every form of source carrying the text t
FormsOf(t) ==
    { HandleSource(t), PathSource(t), TextSource(t, FALSE),
      TextSource(t, TRUE) }
    \cup { StrSource(t, FALSE, TRUE, u) : u \in {NotJson, Dumps(EmptyDict)} }

Sources ==
    { TextSource(Dumps(d), FALSE) : d \in Documents }
    \cup UNION { FormsOf(Dumps(d)) \cup {DocumentSource(d)} : d \in FormDocuments }
    \cup FormsOf(NotJson)
    \cup { NoneSource }

----------------------------------------------------------------------------
(* _load_json *)

Ok(d)    == [error |-> "none", doc |-> d]
Raise(e) == [error |-> e, doc |-> EmptyDict]

\* the ValueError that _load_json raises itself
LoadError == "ValueError: Expected a filename, file-like object, or str"

\* json.loads(text), and json.load(f) once f.read() gave text
json_loads(t) == IF t.valid THEN Ok(t.doc) ELSE Raise("JSONDecodeError")

\* json.load(json_file): calls json_file.read()
json_load(src) ==
    IF src.kind = "handle" THEN json_loads(src.text)
    ELSE Raise("AttributeError")

\* open(json_file): the text of the file, or the exception
open(src) ==
    CASE src.kind # "str" -> [error |-> "TypeError", text |-> NotJson]
      [] src.long         -> [error |-> "OSError", text |-> NotJson]
      [] ~src.file        -> [error |-> "FileNotFoundError", text |-> NotJson]
      [] OTHER            -> [error |-> "none", text |-> src.content]

\* f = open(json_file); document = json.load(f); f.close(): the file is
\* left open when json.load raises
open_then_close(src) ==
    LET f == open(src)
        r == json_loads(f.text)
    IN  IF f.error # "none"
        THEN [error |-> f.error, doc |-> EmptyDict, file |-> "not opened"]
        ELSE [error |-> r.error, doc |-> r.doc,
              file |-> IF r.error = "none" THEN "closed" ELSE "open"]

\* with open(json_file) as f: return json.load(f).  The with statement
\* closes f however the block is left; nothing is opened when open raises.
with_open(src) ==
    LET f == open(src)
        r == json_loads(f.text)
    IN  IF f.error # "none"
        THEN [error |-> f.error, doc |-> EmptyDict, file |-> "not opened"]
        ELSE [error |-> r.error, doc |-> r.doc, file |-> "closed"]

\* a loader that decodes a str as JSON text first, and takes it for a file
\* name only when it does not decode
load_json_str_first(src) ==
    LET case1 == json_load(src)
        case2 == with_open(src)
        Result(r, cases, f) ==
            [error |-> r.error, doc |-> r.doc, tried |-> cases, file |-> f,
             handle |-> IF src.kind = "handle" THEN "open" ELSE "none"]
    IN  IF case1.error # "AttributeError"
        THEN Result(case1, <<"file object">>, "not opened")
        ELSE IF src.kind = "str" /\ src.text.valid
        THEN Result(json_loads(src.text), <<"file object", "str">>,
                    "not opened")
        ELSE IF case2.error # "FileNotFoundError"
        THEN Result(case2, <<"file object", "str", "filename">>, case2.file)
        ELSE Result(Raise(LoadError), <<"file object", "str", "filename">>,
                    "not opened")

\* _load_json(json_file): the document or the exception, with what was
\* tried to get it, the file that was opened for it and the caller's file
\* object, which json.load only reads.  The next case is tried only from
\* the except clause of the case before.
load_json(src) ==
    LET case1 == json_load(src)
        case2 == with_open(src)
        case3 == json_loads(src.text)
        Result(r, cases, f) ==
            [error |-> r.error, doc |-> r.doc, tried |-> cases, file |-> f,
             handle |-> IF src.kind = "handle" THEN "open" ELSE "none"]
    IN  IF case1.error # "AttributeError"
        THEN Result(case1, <<"file object">>, "not opened")
        ELSE IF case2.error # "FileNotFoundError"
        THEN Result(case2, <<"file object", "filename">>, case2.file)
        ELSE IF case3.error = "JSONDecodeError"
        THEN Result(Raise(LoadError), <<"file object", "filename", "str">>,
                    "not opened")
        ELSE Result(case3, <<"file object", "filename", "str">>,
                    "not opened")

----------------------------------------------------------------------------
(* the engine: argparse.ArgumentParser, as the calls of this class use it *)

\* argparse.REMAINDER
REMAINDER == "..."

\* the object before ArgumentParser.__init__ has run: no attribute is set
Uninitialized ==
    [initialized |-> FALSE, options |-> <<>>, conflict_handler |-> "error",
     actions |-> <<>>, groups |-> <<>>]

\* a registered argument; group is the index of its group, 0 for none
Action(names, dest, kwargs, required, group) ==
    [option_strings |-> names, dest |-> dest,
     action |-> Get(kwargs, "action", "store"),
     nargs |-> Get(kwargs, "nargs", "None"),
     required |-> required, group |-> group]

\* the -h/--help argument that add_help registers
HelpAction ==
    [option_strings |-> <<Short("h"), Long("help")>>, dest |-> "help",
     action |-> "help", nargs |-> "None", required |-> FALSE, group |-> 0]

\* the keyword arguments ArgumentParser.__init__ accepts
ParserKeywords ==
    {"prog", "usage", "description", "epilog", "parents", "formatter_class",
     "prefix_chars", "fromfile_prefix_chars", "argument_default",
     "conflict_handler", "add_help", "allow_abbrev", "exit_on_error"}

\* the keyword arguments the action classes accept
ActionKeywords(action) ==
    IF action = "store_true"
    THEN {"action", "dest", "default", "required", "help"}
    ELSE {"action", "dest", "default", "required", "help", "nargs", "const",
          "type", "choices", "metavar"}

\* the values of nargs the engine knows, but for the integers
Nargs == {"None", "?", "*", "+", "...", "A...", "==SUPPRESS=="}

\* the keyword arguments the group constructors accept
GroupKeywords(mutually_exclusive) ==
    IF mutually_exclusive THEN {"required"}
    ELSE {"title", "description", "prefix_chars", "argument_default",
          "conflict_handler"}

Done(p)       == [parser |-> p, error |-> "none"]
Failed(p, e)  == [parser |-> p, error |-> e]

\* ArgumentParser(**data); options is what the engine was constructed with
ArgumentParser(data) ==
    IF ~(DOMAIN data \subseteq ParserKeywords) THEN Failed(Uninitialized, "TypeError")
    ELSE Done([initialized |-> TRUE,
               options |-> data,
               conflict_handler |-> Get(data, "conflict_handler", "error"),
               actions |-> <<HelpAction>>,
               groups |-> <<>>])

\* the long option strings among names, in order
Longs(names) == SelectSeq(names, LAMBDA n : n.dashes = 2)

\* the destination _get_optional_kwargs infers: from the first long option
\* string, from the first option string when none is long
InferDest(names) ==
    IF Longs(names) # <<>> THEN Lstrip(Head(Longs(names)))
    ELSE Lstrip(Head(names))

\* the option strings that actions of p already own
Owned(p) == UNION { Range(p.actions[i].option_strings) : i \in DOMAIN p.actions }

\* _handle_conflict_resolve: the older actions lose the conflicting option
\* strings, and an action that is left with none is removed
Resolve(actions, names) ==
    LET strip(a) == [a EXCEPT !.option_strings =
                        SelectSeq(@, LAMBDA n : n \notin Range(names))]
        marked == [i \in DOMAIN actions |->
                    [a |-> strip(actions[i]),
                     keep |-> strip(actions[i]).option_strings # <<>>
                              \/ actions[i].option_strings = <<>>]]
        kept == SelectSeq(marked, LAMBDA m : m.keep)
    IN  [i \in DOMAIN kept |-> kept[i].a]

\* the actions that _handle_conflict_resolve removes
Removed(actions, names) ==
    { i \in DOMAIN actions :
        /\ actions[i].option_strings # <<>>
        /\ Range(actions[i].option_strings) \subseteq Range(names) }

\* the _group_actions of the groups once action new has joined the group of
\* index group and the actions of gone have been removed from their
\* containers.  The container of a member of a mutually exclusive group is
\* the parser, so such a group keeps the action that was removed.
Members(p, group, gone) ==
    [g \in DOMAIN p.groups |->
        [p.groups[g] EXCEPT !.members =
            @ + (IF g = group THEN 1 ELSE 0)
              - (IF p.groups[g].mutually_exclusive THEN 0
                 ELSE Cardinality({ i \in gone : p.actions[i].group = g }))]]

\* container.add_argument(*names, **kwargs), container the parser (group 0)
\* or its group of that index
add_argument(p, names, kwargs, group) ==
    LET positional == Len(names) = 1 /\ names[1].dashes = 0
        action     == Get(kwargs, "action", "store")
        nargs      == Get(kwargs, "nargs", "None")
        required   == IF positional
                      THEN ~(nargs = "?"
                             \/ (nargs = "*" /\ "default" \in DOMAIN kwargs))
                      ELSE Get(kwargs, "required", FALSE)
        new        == Action(IF positional THEN <<>> ELSE names,
                             IF positional THEN names[1].word
                             ELSE InferDest(names),
                             kwargs, required, group)
        exclusive  == group # 0 /\ p.groups[group].mutually_exclusive
        conflict   == Range(new.option_strings) \cap Owned(p) # {}
    IN  IF ~p.initialized THEN Failed(p, "AttributeError")
        ELSE IF positional /\ "dest" \in DOMAIN kwargs
             THEN Failed(p, "ValueError")
        ELSE IF positional /\ "required" \in DOMAIN kwargs
             THEN Failed(p, "TypeError")
        ELSE IF ~positional /\ \E i \in DOMAIN names : names[i].dashes = 0
             THEN Failed(p, "ValueError")
        ELSE IF ~(DOMAIN kwargs \subseteq ActionKeywords(action))
             THEN Failed(p, "TypeError")
        ELSE IF nargs \notin Nargs THEN Failed(p, "ValueError")
        ELSE IF exclusive /\ required THEN Failed(p, "ValueError")
        ELSE IF conflict /\ p.conflict_handler = "error"
             THEN Failed(p, "ArgumentError")
        ELSE Done([p EXCEPT
                !.actions = Append(IF conflict
                                   THEN Resolve(@, new.option_strings)
                                   ELSE @, new),
                !.groups = Members(p, group,
                                   IF conflict
                                   THEN Removed(p.actions, new.option_strings)
                                   ELSE {})])

\* add_mutually_exclusive_group(**kwargs) or add_argument_group(**kwargs).
\* The exclusive group's constructor takes no other keyword than required,
\* which the call itself checks; the plain group's reads the attributes of
\* its container first.
add_group(p, mutually_exclusive, kwargs) ==
    LET badkw == ~(DOMAIN kwargs \subseteq GroupKeywords(mutually_exclusive))
    IN  IF mutually_exclusive /\ badkw THEN Failed(p, "TypeError")
        ELSE IF ~p.initialized THEN Failed(p, "AttributeError")
        ELSE IF badkw THEN Failed(p, "TypeError")
        ELSE Done([p EXCEPT !.groups =
                     Append(@, [mutually_exclusive |-> mutually_exclusive,
                                kwargs |-> kwargs, members |-> 0])])

----------------------------------------------------------------------------
(* the registrar *)

\* a _process_argument that puts the aliases before the name
process_argument_aliases_first(name, kwargs) ==
    LET k1 == IF Get(kwargs, "nargs", "None") = "argparse.REMAINDER"
              THEN Put(kwargs, "nargs", REMAINDER)
              ELSE kwargs
    IN  [names  |-> Get(k1, "aliases", <<>>) \o <<name>>,
         kwargs |-> Pop(k1, "aliases")]

\* a _process_argument that forwards nargs as it is written
process_argument_verbatim(name, kwargs) ==
    [names  |-> <<name>> \o Get(kwargs, "aliases", <<>>),
     kwargs |-> Pop(kwargs, "aliases")]

\* a _process_argument that reads the aliases with kwargs.get and leaves
\* them in kwargs
process_argument_keeps_aliases(name, kwargs) ==
    LET k1 == IF Get(kwargs, "nargs", "None") = "argparse.REMAINDER"
              THEN Put(kwargs, "nargs", REMAINDER)
              ELSE kwargs
    IN  [names  |-> <<name>> \o Get(k1, "aliases", <<>>),
         kwargs |-> k1]

\* _process_argument(name, kwargs): the names and the keyword arguments
\* for add_argument.  kwargs is changed in place: what is returned as
\* kwargs is also what the caller's dict holds afterwards.
process_argument(name, kwargs) ==
    LET k1 == IF Get(kwargs, "nargs", "None") = "argparse.REMAINDER"
              THEN Put(kwargs, "nargs", REMAINDER)
              ELSE kwargs
    IN  [names  |-> <<name>> \o Get(k1, "aliases", <<>>),
         kwargs |-> Pop(k1, "aliases")]

\* the loop over data.items() of _parse_arguments and of _parse_groups,
\* from item i on: every item is processed and added to the container.
\* data comes back as the loop left the dicts it went through.
RECURSIVE add_arguments(_, _, _, _)
add_arguments(p, data, i, group) ==
    IF i > Len(data) THEN [parser |-> p, error |-> "none", data |-> data]
    ELSE LET pa    == process_argument(data[i].name, data[i].kwargs)
             data1 == [data EXCEPT ![i].kwargs = pa.kwargs]
             r     == add_argument(p, pa.names, pa.kwargs, group)
         IN  IF r.error # "none"
             THEN [parser |-> r.parser, error |-> r.error, data |-> data1]
             ELSE add_arguments(r.parser, data1, i + 1, group)

\* a _parse_parser that passes the keyword arguments of the constructor on
\* to the engine, where "parser" does not give them
parse_parser_with_kwargs(data) ==
    IF IsArray(data) THEN Failed(Uninitialized, "TypeError")
    ELSE ArgumentParser([k \in DOMAIN data \cup DOMAIN init_kwargs |->
                            IF k \in DOMAIN data THEN data[k]
                            ELSE init_kwargs[k]])

\* _parse_parser(data)
parse_parser(data) ==
    IF IsArray(data) THEN Failed(Uninitialized, "TypeError")
    ELSE ArgumentParser(data)

\* _parse_arguments(data)
parse_arguments(p, data) ==
    IF IsArrayItems(data)
    THEN [parser |-> p, error |-> "AttributeError", data |-> data]
    ELSE add_arguments(p, data, 1, 0)

\* a _parse_groups that creates each group and then registers its
\* arguments with self.add_argument
RECURSIVE parse_groups_on_parser(_, _, _)
parse_groups_on_parser(p, data, i) ==
    IF IsArrayItems(data)
    THEN [parser |-> p, error |-> "AttributeError", data |-> data]
    ELSE IF i > Len(data)
    THEN [parser |-> p, error |-> "none", data |-> data]
    ELSE LET group_kwargs == Pop(Pop(data[i].kwargs, "arguments"),
                                 "mutually_exclusive")
             mutually_exclusive ==
                 Get(data[i].kwargs, "mutually_exclusive", FALSE)
             data1 == [data EXCEPT ![i].kwargs = group_kwargs]
             g     == add_group(p, mutually_exclusive, group_kwargs)
             arguments == Get(data[i].kwargs, "arguments", <<>>)
             r     == IF IsArrayItems(arguments)
                      THEN [parser |-> g.parser, error |-> "AttributeError",
                            data |-> arguments]
                      ELSE add_arguments(g.parser, arguments, 1, 0)
         IN  IF g.error # "none"
             THEN [parser |-> g.parser, error |-> g.error, data |-> data1]
             ELSE IF r.error # "none"
             THEN [parser |-> r.parser, error |-> r.error, data |-> data1]
             ELSE parse_groups_on_parser(r.parser, data1, i + 1)

\* _parse_groups(data), from group i on.  The "arguments" mapping that is
\* popped from a group is no longer part of the document.
RECURSIVE parse_groups(_, _, _)
parse_groups(p, data, i) ==
    IF IsArrayItems(data)
    THEN [parser |-> p, error |-> "AttributeError", data |-> data]
    ELSE IF i > Len(data)
    THEN [parser |-> p, error |-> "none", data |-> data]
    ELSE LET group_kwargs == Pop(Pop(data[i].kwargs, "arguments"),
                                 "mutually_exclusive")
             mutually_exclusive ==
                 Get(data[i].kwargs, "mutually_exclusive", FALSE)
             data1 == [data EXCEPT ![i].kwargs = group_kwargs]
             g     == add_group(p, mutually_exclusive, group_kwargs)
             arguments == Get(data[i].kwargs, "arguments", <<>>)
             r     == IF IsArrayItems(arguments)
                      THEN [parser |-> g.parser, error |-> "AttributeError",
                            data |-> arguments]
                      ELSE add_arguments(g.parser, arguments, 1,
                                         Len(g.parser.groups))
         IN  IF g.error # "none"
             THEN [parser |-> g.parser, error |-> g.error, data |-> data1]
             ELSE IF r.error # "none"
             THEN [parser |-> r.parser, error |-> r.error, data |-> data1]
             ELSE parse_groups(r.parser, data1, i + 1)

----------------------------------------------------------------------------
(* the engine's parse_args *)

\* the values a namespace holds
None      == [type |-> "None", value |-> <<>>]
True      == [type |-> "True", value |-> <<>>]
False     == [type |-> "False", value |-> <<>>]
Str(t)    == [type |-> "str", value |-> <<t>>]
List(ts)  == [type |-> "list", value |-> ts]

\* action.default
Default(a) == IF a.action = "store_true" THEN False ELSE None

\* the namespace before any token is read: every destination has the
\* default of the first action registered for it; help has none
Defaults(p) ==
    LET with == { i \in DOMAIN p.actions : p.actions[i].action # "help" }
        first(d) == CHOOSE i \in with :
                        /\ p.actions[i].dest = d
                        /\ \A j \in with : p.actions[j].dest = d => i <= j
    IN  [d \in { p.actions[i].dest : i \in with } |->
            Default(p.actions[first(d)])]

\* the action that owns the option string tok, 0 when no action does
Owner(p, tok) ==
    IF \E i \in DOMAIN p.actions : tok \in Range(p.actions[i].option_strings)
    THEN CHOOSE i \in DOMAIN p.actions :
            tok \in Range(p.actions[i].option_strings)
    ELSE 0

\* the positional actions, in the order they were registered
Positionals(p) ==
    SelectSeq([i \in DOMAIN p.actions |-> i],
              LAMBDA i : p.actions[i].option_strings = <<>>)

\* the other members of the mutually exclusive group of action ai
Conflicts(p, ai) ==
    LET g == p.actions[ai].group
    IN  IF g = 0 \/ ~p.groups[g].mutually_exclusive THEN {}
        ELSE { j \in DOMAIN p.actions \ {ai} : p.actions[j].group = g }

ParseStart(p) ==
    [i |-> 1, positionals |-> Positionals(p), seen |-> {},
     seen_non_default |-> {}, namespace |-> Defaults(p), extras |-> <<>>,
     error |-> "none"]

\* take_action(action, args): a value that is the default does not count
\* as present; a present value conflicts with a present member of the same
\* mutually exclusive group
take_action(p, st, ai, args) ==
    LET a == p.actions[ai]
        value == IF a.action = "store_true" THEN True
                 ELSE IF a.nargs = REMAINDER THEN List(args)
                 ELSE IF args = <<>> THEN None
                 ELSE Str(args[1])
        present == value # Default(a)
    IN  IF present /\ Conflicts(p, ai) \cap st.seen_non_default # {}
        THEN [st EXCEPT !.error = "SystemExit(2)"]
        ELSE [st EXCEPT !.seen = @ \cup {ai},
                        !.seen_non_default =
                            IF present THEN @ \cup {ai} ELSE @,
                        !.namespace = Put(@, a.dest, value)]

\* consume_optional(start_index), start_index = st.i
consume_optional(p, st, toks) ==
    LET ai   == Owner(p, toks[st.i])
        a    == p.actions[ai]
        rest == SubSeq(toks, st.i + 1, Len(toks))
        one  == rest # <<>> /\ Head(rest).dashes = 0
        n    == IF a.action = "store_true" THEN 0
                ELSE IF a.nargs = REMAINDER THEN Len(rest)
                ELSE IF one THEN 1 ELSE 0
        took == take_action(p, st, ai, SubSeq(rest, 1, n))
    IN  IF ai = 0
        THEN [st EXCEPT !.extras = Append(@, toks[st.i]), !.i = @ + 1]
        ELSE IF a.action = "help" THEN [st EXCEPT !.error = "SystemExit(0)"]
        ELSE IF a.action = "store" /\ a.nargs = "None" /\ ~one
        THEN [st EXCEPT !.error = "SystemExit(2)"]
        ELSE [took EXCEPT !.i = st.i + 1 + n]

\* consume_positionals(start_index), start_index = st.i: as many of the
\* positionals left as the tokens from there on match, each taking one
\* token that is no option string ("?" takes none when there is none,
\* REMAINDER takes all that is left)
RECURSIVE consume_positionals(_, _, _)
consume_positionals(p, st, toks) ==
    IF st.positionals = <<>> \/ st.error # "none" THEN st
    ELSE LET ai   == Head(st.positionals)
             a    == p.actions[ai]
             rest == SubSeq(toks, st.i, Len(toks))
             one  == rest # <<>> /\ Head(rest).dashes = 0
             n    == IF a.action = "store_true" THEN 0
                     ELSE IF a.nargs = REMAINDER THEN Len(rest)
                     ELSE IF one THEN 1 ELSE 0
             took == take_action(p, st, ai, SubSeq(rest, 1, n))
         IN  IF a.action = "store" /\ a.nargs = "None" /\ ~one THEN st
             ELSE consume_positionals(p,
                     [took EXCEPT !.i = st.i + n,
                                  !.positionals = Tail(st.positionals)],
                     toks)

\* the loop of _parse_known_args: positionals and optionals in turn until
\* the last option string is passed, then the positionals after it
RECURSIVE parse_known_args(_, _, _)
parse_known_args(p, st, toks) ==
    LET options == { j \in st.i..Len(toks) : toks[j].dashes > 0 }
        next    == CHOOSE j \in options : \A k \in options : j <= k
        pos     == consume_positionals(p, st, toks)
        tail    == [pos EXCEPT !.extras = @ \o SubSeq(toks, pos.i, Len(toks)),
                               !.i = Len(toks) + 1]
        skipped == [pos EXCEPT !.extras = @ \o SubSeq(toks, pos.i, next - 1),
                               !.i = next]
    IN  IF st.error # "none" THEN st
        ELSE IF options = {} THEN tail
        ELSE IF st.i = next
             THEN parse_known_args(p, consume_optional(p, st, toks), toks)
        ELSE IF pos.error # "none" THEN pos
        ELSE IF pos.i > st.i THEN parse_known_args(p, pos, toks)
        ELSE parse_known_args(p, consume_optional(p, skipped, toks), toks)

\* parser.error(message): the usage is printed and the process exits with
\* code 2; formatting the usage raises ValueError when a mutually exclusive
\* group has no member
Exit2(p) ==
    IF \E g \in DOMAIN p.groups :
          p.groups[g].mutually_exclusive /\ p.groups[g].members = 0
    THEN "ValueError"
    ELSE "SystemExit(2)"

\* parse_args(toks) of the object p: the namespace, or how the call fails
\* (a required argument that was not seen, tokens that were not consumed
\* and every ArgumentError end in parser.error)
parse_args(p, toks) ==
    LET st == parse_known_args(p, ParseStart(p), toks)
        missing == \E i \in DOMAIN p.actions :
                      p.actions[i].required /\ i \notin st.seen
    IN  IF ~p.initialized
        THEN [namespace |-> EmptyDict, error |-> "AttributeError"]
        ELSE IF st.error = "SystemExit(0)"
        THEN [namespace |-> EmptyDict, error |-> st.error]
        ELSE IF st.error # "none" \/ missing \/ st.extras # <<>>
        THEN [namespace |-> EmptyDict, error |-> Exit2(p)]
        ELSE [namespace |-> st.namespace, error |-> "none"]

----------------------------------------------------------------------------
(* JSONArgumentParser.__init__, step by step, and the parse call *)

\* a constructor that goes on to the next step when a step raised, as if
\* each call were wrapped in try/except
AfterSwallowed(next, j, p, e, called) ==
    [pc |-> next, json_data |-> j, parser |-> p, error |-> e,
     called |-> called]

\* where __init__ is after a step: at next, or left with the exception e;
\* j is the document and p the object as the step left them, and called
\* tells whether the step called its method
After(next, j, p, e, called) ==
    [pc |-> IF e = "none" THEN next ELSE "failed",
     json_data |-> j, parser |-> p, error |-> e, called |-> called]

\* if parser_data := json_data.get("parser"): self._parse_parser(parser_data)
InitParser(j, p) ==
    LET parser_data == Get(j, "parser", EmptyDict)
        r == parse_parser(parser_data)
    IN  IF IsArray(j)
        THEN After("arguments", j, p, "AttributeError", FALSE)
        ELSE IF Falsy(parser_data)
        THEN After("arguments", j, p, "none", FALSE)
        ELSE After("arguments", j,
                   IF r.error = "none" THEN r.parser ELSE p, r.error, TRUE)

\* a constructor that creates the groups first and registers the flat
\* arguments after them
InitArgumentsAfterGroups(j, p) ==
    LET groups_data == Get(j, "groups", <<>>)
        g == IF FalsyItems(groups_data)
             THEN [parser |-> p, error |-> "none", data |-> groups_data]
             ELSE parse_groups(p, groups_data, 1)
        arguments_data == Get(j, "arguments", <<>>)
        r == parse_arguments(g.parser, arguments_data)
    IN  IF g.error # "none"
        THEN After("groups", j, g.parser, g.error, TRUE)
        ELSE IF FalsyItems(arguments_data)
        THEN After("groups", j, g.parser, "none", FALSE)
        ELSE After("groups", Put(j, "arguments", r.data), r.parser, r.error,
                   TRUE)

\* if arguments_data := json_data.get("arguments"):
\*     self._parse_arguments(arguments_data)
InitArguments(j, p) ==
    LET arguments_data == Get(j, "arguments", <<>>)
        r == parse_arguments(p, arguments_data)
    IN  IF FalsyItems(arguments_data)
        THEN After("groups", j, p, "none", FALSE)
        ELSE After("groups", Put(j, "arguments", r.data), r.parser, r.error,
                   TRUE)

\* if groups_data := json_data.get("groups"): self._parse_groups(groups_data)
\* self._json_data_after_parsing = json_data
InitGroups(j, p) ==
    LET groups_data == Get(j, "groups", <<>>)
        r == parse_groups(p, groups_data, 1)
    IN  IF FalsyItems(groups_data)
        THEN After("done", j, p, "none", FALSE)
        ELSE After("done", Put(j, "groups", r.data), r.parser, r.error, TRUE)

\* __init__ from the loaded document doc on
Build(doc) ==
    LET a == InitParser(doc, Uninitialized)
        b == IF a.pc = "failed" THEN a ELSE InitArguments(a.json_data, a.parser)
    IN  IF b.pc = "failed" THEN b ELSE InitGroups(b.json_data, b.parser)

\* JSONArgumentParser(src)
Construct(src) ==
    LET l == load_json(src)
    IN  IF l.error # "none"
        THEN After("parser", EmptyDict, Uninitialized, l.error, TRUE)
        ELSE Build(l.doc)

Init ==
    /\ source \in Sources
    /\ init_args = <<>>
    /\ init_kwargs = EmptyDict
    /\ pc = "load"
    /\ json_data = EmptyDict
    /\ loaded = EmptyDict
    /\ parser = Uninitialized
    /\ error = "none"
    /\ returned = FALSE
    /\ calls = <<>>
    /\ tried = <<>>
    /\ opened_file = "not opened"
    /\ handle = IF source.kind = "handle" THEN "open" ELSE "none"
    /\ tokens = <<>>
    /\ namespace = EmptyDict
    /\ parse_error = "not called"

\* the step that called method (when called) has left __init__ as m says:
\* an exception leaves __init__ and the caller gets no object, and after
\* the last step the caller gets the object
Goto(m, method) ==
    /\ pc' = m.pc
    /\ json_data' = m.json_data
    /\ parser' = m.parser
    /\ error' = m.error
    /\ returned' = (m.pc = "done")
    /\ calls' = IF m.called THEN Append(calls, method) ELSE calls
    /\ UNCHANGED <<source, init_args, init_kwargs, tokens, namespace,
                   parse_error>>

\* json_data = self._load_json(json_file); self.json_data = json_data;
\* json_data = json_data.copy()
LoadJson ==
    /\ pc = "load"
    /\ LET r == load_json(source)
       IN  /\ loaded' = r.doc
           /\ tried' = r.tried
           /\ opened_file' = r.file
           /\ handle' = r.handle
           /\ Goto(After("parser", r.doc, parser, r.error, TRUE), "_load_json")

ParseParser ==
    /\ pc = "parser"
    /\ Goto(InitParser(json_data, parser), "_parse_parser")
    /\ UNCHANGED <<loaded, tried, opened_file, handle>>

ParseArguments ==
    /\ pc = "arguments"
    /\ Goto(InitArguments(json_data, parser), "_parse_arguments")
    /\ UNCHANGED <<loaded, tried, opened_file, handle>>

ParseGroups ==
    /\ pc = "groups"
    /\ Goto(InitGroups(json_data, parser), "_parse_groups")
    /\ UNCHANGED <<loaded, tried, opened_file, handle>>

\* the names and aliases of the items of an arguments mapping
NamesOf(items) ==
    IF IsArrayItems(items) THEN {} ELSE
    UNION { {items[i].name} \cup Range(Get(items[i].kwargs, "aliases", <<>>)) :
              i \in DOMAIN items }

\* the tokens a caller passes: the option strings the document names, and
\* a value
Alphabet(doc) ==
    LET groups == Get(doc, "groups", <<>>)
    IN  {Plain("v")}
        \cup NamesOf(Get(doc, "arguments", <<>>))
        \cup UNION { NamesOf(Get(groups[i].kwargs, "arguments", <<>>)) :
                       i \in DOMAIN groups }

TokenLists(doc) == UNION { [1..k -> Alphabet(doc)] : k \in 0..MaxTokens }

\* args = parser.parse_args(toks): the one call the caller of the
\* constructor makes on the object it got
ParseArgs ==
    /\ pc = "done"
    /\ returned
    /\ parse_error = "not called"
    /\ \E toks \in TokenLists(loaded) :
         LET r == parse_args(parser, toks)
         IN  /\ tokens' = toks
             /\ namespace' = r.namespace
             /\ parse_error' = r.error
    /\ UNCHANGED <<source, init_args, init_kwargs, pc, json_data, loaded,
                   parser, error, returned, calls, tried, opened_file,
                   handle>>

Next == LoadJson \/ ParseParser \/ ParseArguments \/ ParseGroups \/ ParseArgs

Spec == Init /\ [][Next]_vars

----------------------------------------------------------------------------
(* documents that lack the structure the constructor expects *)

\* what the document may hold under "parser", "arguments" and "groups":
\* nothing (the key is absent), a dict, or an array; and a group may hold
\* an array under its "arguments"
ShapeParsers ==
    { [parser |-> v] : v \in {[prog |-> "p"], Array("[1]"), Array("[]")} }
    \cup {EmptyDict}
ShapeArguments ==
    { [arguments |-> v] :
        v \in { <<Item(Long("a"), StoreTrue)>>,
                ArrayItems(Plain("json"), "[1]"),
                ArrayItems(Plain("json"), "[]") } }
    \cup {EmptyDict}
ShapeGroups ==
    { [groups |-> v] :
        v \in { ArrayItems("json", "[1]"), ArrayItems("json", "[]") } \cup
              { <<Item("g", Put(o, "arguments", a))>> :
                  o \in {EmptyDict, [mutually_exclusive |-> TRUE]},
                  a \in { <<Item(Long("b"), StoreTrue)>>,
                          ArrayItems(Plain("json"), "[1]"),
                          ArrayItems(Plain("json"), "[]") } } }
    \cup {EmptyDict}

\* d @@ e for dicts with distinct keys
Merge(d, e) ==
    [k \in DOMAIN d \cup DOMAIN e |-> IF k \in DOMAIN d THEN d[k] ELSE e[k]]

\* the documents: an array, or a dict of these
ShapeDocuments ==
    { Array("[1]"), Array("[]") } \cup
    { Merge(Merge(a, b), c) :
        a \in ShapeParsers, b \in ShapeArguments, c \in ShapeGroups }

ShapeInit ==
    /\ source \in { TextSource(Dumps(d), FALSE) : d \in ShapeDocuments }
    /\ init_args = <<>>
    /\ init_kwargs = EmptyDict
    /\ pc = "load"
    /\ json_data = EmptyDict
    /\ loaded = EmptyDict
    /\ parser = Uninitialized
    /\ error = "none"
    /\ returned = FALSE
    /\ calls = <<>>
    /\ tried = <<>>
    /\ opened_file = "not opened"
    /\ handle = IF source.kind = "handle" THEN "open" ELSE "none"
    /\ tokens = <<>>
    /\ namespace = EmptyDict
    /\ parse_error = "not called"

ShapeSpec == ShapeInit /\ [][Next]_vars

----------------------------------------------------------------------------
(* constructors that are given more than the source *)

\* the usage the package entry point passes
EntryPointUsage == "louie [options] module [args...]"

\* the *args and the **kwargs the constructor is given
ExtraArgs == { <<>>, <<"a">> }
ExtraKwargs ==
    { EmptyDict,
      [usage |-> EntryPointUsage],
      [usage |-> EntryPointUsage, conflict_handler |-> "resolve"],
      [bogus |-> "b"] }

\* their documents: with and without "parser", which may give a usage
ExtraDocuments ==
    FormDocuments \cup
    { [parser |-> [usage |-> "u"]],
      [parser |-> [prog |-> "p", usage |-> "u"],
       arguments |-> <<Item(Plain("module"), EmptyDict),
                       Item(Plain("args"), [nargs |-> "argparse.REMAINDER"])>>],
      [parser |-> [prog |-> "p"],
       arguments |-> <<Item(Long("a"), StoreTrue)>>,
       groups |-> <<Item("g", [arguments |-> <<Item(Long("a"), StoreTrue)>>])>>] }

ExtraInit ==
    /\ source \in { PathSource(Dumps(d)) : d \in ExtraDocuments }
    /\ init_args \in ExtraArgs
    /\ init_kwargs \in ExtraKwargs
    /\ pc = "load"
    /\ json_data = EmptyDict
    /\ loaded = EmptyDict
    /\ parser = Uninitialized
    /\ error = "none"
    /\ returned = FALSE
    /\ calls = <<>>
    /\ tried = <<>>
    /\ opened_file = "not opened"
    /\ handle = IF source.kind = "handle" THEN "open" ELSE "none"
    /\ tokens = <<>>
    /\ namespace = EmptyDict
    /\ parse_error = "not called"

ExtraSpec == ExtraInit /\ [][Next]_vars

----------------------------------------------------------------------------
(* what the properties below speak of *)

\* __init__ has ended: it returned, or an exception left it
Finished == pc \in {"done", "failed"}

\* _load_json raised: no other method was called
LoadFailed == pc = "failed" /\ calls = <<"_load_json">>

\* _load_json returned a document
Loaded == pc # "load" /\ ~LoadFailed

\* the argument definitions of a document: <<0, i>> is the i-th flat
\* argument and <<g, i>> the i-th member of the g-th group
FlatOf(doc) == Get(doc, "arguments", <<>>)
GroupsOf(doc) == Get(doc, "groups", <<>>)
MembersOf(doc, g) == Get(GroupsOf(doc)[g].kwargs, "arguments", <<>>)
DefinitionsOf(doc) ==
    { <<0, i>> : i \in DOMAIN FlatOf(doc) } \cup
    UNION { { <<g, i>> : i \in DOMAIN MembersOf(doc, g) } :
              g \in DOMAIN GroupsOf(doc) }
DefinitionAt(doc, x) ==
    IF x[1] = 0 THEN FlatOf(doc)[x[2]] ELSE MembersOf(doc, x[1])[x[2]]
AliasesOf(e) == Get(e.kwargs, "aliases", <<>>)

\* two definitions of the document share a primary name or an alias
Collides(doc) ==
    \E x, y \in DefinitionsOf(doc) :
        /\ x # y
        /\ NamesOf(<<DefinitionAt(doc, x)>>) \cap
           NamesOf(<<DefinitionAt(doc, y)>>) # {}

\* parse_args was called and returned a namespace
Parsed == parse_error = "none"

----------------------------------------------------------------------------
(* C1: a document without "parser" *)

\* the schema {"arguments": {"--x": {"action": "store_true",
\*                                   "aliases": ["-x"]}}}
SchemaX ==
    [arguments |-> <<Item(Long("x"),
        [action |-> "store_true", aliases |-> <<Short("x")>>])>>]

\* C1: a document with no "parser" key is built as if "parser" were the
\* empty mapping: the engine is constructed before any argument or group
\* is registered and construction succeeds; for SchemaX and the tokens
\* ["-x"], parse returns {x: true}
C1_AbsentParserBuilds ==
    (Finished /\ Loaded /\ "parser" \notin DOMAIN loaded) =>
        /\ pc = "done"
        /\ returned
        /\ parser.initialized
        /\ (loaded = SchemaX /\ tokens = <<Short("x")>> /\
            parse_error # "not called") =>
                (Parsed /\ namespace = [d \in {"x"} |-> True])

----------------------------------------------------------------------------
(* C2: the forms of source *)

\* the sources that carry the content of document d: the decoded document,
\* a path to its text, an open handle on its text, and the text itself
FormsOfContent(d) ==
    { DocumentSource(d), PathSource(Dumps(d)), HandleSource(Dumps(d)),
      TextSource(Dumps(d), FALSE), TextSource(Dumps(d), TRUE) }

\* C2: whatever form the content of the source is given in, construction
\* ends the same way: no form fails where another succeeds, and the
\* parsers have the same destinations with the same defaults
C2_SameParserFromEveryForm ==
    Finished =>
        \A d \in FormDocuments : source \in FormsOfContent(d) =>
            \A other \in FormsOfContent(d) :
                LET o == Construct(other)
                IN  /\ (o.pc = "done") <=> (pc = "done")
                    /\ (pc = "done" /\ parser.initialized) =>
                          Defaults(o.parser) = Defaults(parser)

----------------------------------------------------------------------------
(* C3: the loaded document *)

\* C3: construction never modifies the loaded document: after the build
\* pass it is equal to what it was when it was loaded, so constructing
\* from it a second time gives the same parser
C3_DocumentUnchanged ==
    pc = "done" =>
        /\ json_data = loaded
        /\ Build(json_data).parser = parser

----------------------------------------------------------------------------
(* C4: colliding names *)

\* C4: for a document in which two argument definitions (flat or in
\* groups) share a primary name or an alias, construction fails and no
\* parser is returned, whatever the "parser" options are: no definition
\* silently shadows another
C4_DuplicateFails ==
    (Finished /\ Loaded /\ Collides(loaded)) =>
        (pc = "failed" /\ ~returned)

----------------------------------------------------------------------------
(* C5: a group of two members *)

\* the document is one group of two flags, as in {"groups": {"g":
\* {"mutually_exclusive": true, "arguments": {"--a": {"action":
\* "store_true"}, "--b": {"action": "store_true"}}}}}, with at most a
\* program name for the parser
TwoMembers(doc) ==
    /\ Get(doc, "parser", EmptyDict) \in {EmptyDict, [prog |-> "p"]}
    /\ FlatOf(doc) = <<>>
    /\ Len(GroupsOf(doc)) = 1
    /\ DOMAIN GroupsOf(doc)[1].kwargs \subseteq
          {"arguments", "mutually_exclusive"}
    /\ Len(MembersOf(doc, 1)) = 2
    /\ \A i \in 1..2 : MembersOf(doc, 1)[i].kwargs = StoreTrue

Exclusive(doc) == Get(GroupsOf(doc)[1].kwargs, "mutually_exclusive", FALSE)

\* the token list supplies both members of the group
SuppliesBoth(doc, toks) ==
    toks = <<MembersOf(doc, 1)[1].name, MembersOf(doc, 1)[2].name>>

\* C5: for a group of two members, a token list that supplies both makes
\* parse fail with the argument-parse error when the group is mutually
\* exclusive, and parses with both destinations set when it is not
C5_ExclusiveGroupParse ==
    (Finished /\ Loaded /\ TwoMembers(loaded)) =>
        /\ pc = "done"
        /\ (parse_error # "not called" /\ SuppliesBoth(loaded, tokens)) =>
              IF Exclusive(loaded)
              THEN parse_error = "SystemExit(2)"
              ELSE /\ Parsed
                   /\ \A i \in 1..2 :
                        namespace[Lstrip(MembersOf(loaded, 1)[i].name)] = True

----------------------------------------------------------------------------
(* C6: aliases *)

\* the token list uses one name of the definition e, which has two aliases
UsesNameOf(toks, e) ==
    /\ Len(AliasesOf(e)) = 2
    /\ Len(toks) = 1
    /\ toks[1] \in NamesOf(<<e>>)

\* the namespace that parse_args returned has dest set, and every other
\* destination at its default
Sets(dest) ==
    /\ Parsed
    /\ dest \in DOMAIN Defaults(parser)
    /\ namespace = [Defaults(parser) EXCEPT ![dest] = True]

----------------------------------------------------------------------------
(* C7, C8: what leaves _load_json *)

\* C7: a string that names no existing file and is not valid JSON makes
\* construction fail with the load error of _load_json; no parser is
\* returned
C7_InvalidStringIsLoadError ==
    (Finished /\ source.kind = "str" /\ ~source.file /\ ~source.text.valid) =>
        (LoadFailed /\ error = LoadError /\ ~returned)

\* the texts _load_json may decode for the source
TextsOf(src) ==
    CASE src.kind = "handle" -> {src.text}
      [] src.kind = "str" -> {src.text} \cup
                             (IF src.file THEN {src.content} ELSE {})
      [] src.kind = "document" -> {Dumps(src.doc)}
      [] OTHER -> {}

\* C8: for every source, _load_json returns the completely decoded
\* document or raises its one load error: no other exception escapes it
C8_SingleLoadError ==
    pc # "load" =>
        \/ LoadFailed /\ error = LoadError
        \/ Loaded /\ \E t \in TextsOf(source) : t.valid /\ loaded = t.doc

----------------------------------------------------------------------------
(* C9: a step that fails *)

\* C9: an exception in any step ends the construction there: no step runs
\* after it, no parse is made, the caller gets no object; an object that is
\* returned went through every step of the build
C9_FailureAborts ==
    /\ [](/\ error # "none" => (pc = "failed" /\ ~returned /\
                                parse_error = "not called")
          /\ returned => /\ pc = "done"
                         /\ Build(loaded).pc = "done"
                         /\ parser = Build(loaded).parser)
    /\ [][pc # "failed"]_vars

\* _parse_groups raised after _parse_parser and _parse_arguments had
\* registered arguments: the object is partly built and is not returned
C9_Witness ==
    /\ pc = "failed"
    /\ calls = <<"_load_json", "_parse_parser", "_parse_arguments",
                 "_parse_groups">>
    /\ Len(parser.actions) > 1
    /\ ~returned

----------------------------------------------------------------------------
(* C10: nargs *)

\* the definitions with the engine's sentinel for "argparse.REMAINDER"
WithSentinel(items) ==
    [i \in DOMAIN items |->
        Item(items[i].name,
             IF Get(items[i].kwargs, "nargs", "None") = "argparse.REMAINDER"
             THEN [items[i].kwargs EXCEPT !.nargs = REMAINDER]
             ELSE items[i].kwargs)]

\* the document with the sentinel in every definition
SentinelDocument(doc) ==
    [k \in DOMAIN doc |->
        IF k = "arguments" THEN WithSentinel(doc[k])
        ELSE IF k = "groups"
        THEN [g \in DOMAIN doc[k] |->
                 Item(doc[k][g].name,
                      IF "arguments" \in DOMAIN doc[k][g].kwargs
                      THEN [doc[k][g].kwargs EXCEPT
                               !.arguments = WithSentinel(@)]
                      ELSE doc[k][g].kwargs)]
        ELSE doc[k]]

\* nargs of a definition, "absent" when it has none
NargsOf(kwargs) == Get(kwargs, "nargs", "absent")

\* C10: a definition whose nargs is "argparse.REMAINDER" registers the
\* same engine argument as one whose nargs is the sentinel: construction
\* ends as it does for the document with the sentinel written in; what
\* _process_argument forwards is the sentinel for that string and the
\* written nargs otherwise; processing a processed definition again leaves
\* nargs as it is
C10_RemainderIsSentinel ==
    (Finished /\ Loaded) =>
        /\ LET o == Build(SentinelDocument(loaded))
           IN  o.pc = pc /\ o.error = error /\ o.parser = parser
        /\ \A x \in DefinitionsOf(loaded) :
              LET e == DefinitionAt(loaded, x)
                  once == process_argument(e.name, e.kwargs).kwargs
                  twice == process_argument(e.name, once).kwargs
              IN  /\ NargsOf(once) =
                        IF NargsOf(e.kwargs) = "argparse.REMAINDER"
                        THEN REMAINDER ELSE NargsOf(e.kwargs)
                  /\ NargsOf(twice) = NargsOf(once)
        /\ (pc = "done") =>
              \A i \in DOMAIN FlatOf(loaded) :
                  NargsOf(FlatOf(json_data)[i].kwargs) =
                      IF NargsOf(FlatOf(loaded)[i].kwargs) = "argparse.REMAINDER"
                      THEN REMAINDER ELSE NargsOf(FlatOf(loaded)[i].kwargs)

\* a group member written with "argparse.REMAINDER" is registered with the
\* sentinel and takes every token after its option string
C10_Witness ==
    /\ Parsed
    /\ \E x \in DefinitionsOf(loaded) :
          /\ x[1] # 0
          /\ DefinitionAt(loaded, x).name = Long("r")
          /\ NargsOf(DefinitionAt(loaded, x).kwargs) = "argparse.REMAINDER"
    /\ \E i \in DOMAIN parser.actions :
          parser.actions[i].dest = "r" /\ parser.actions[i].nargs = REMAINDER
    /\ Len(tokens) = 2
    /\ tokens[1] = Long("r")
    /\ tokens[2].dashes = 2
    /\ namespace["r"] = List(<<tokens[2]>>)

----------------------------------------------------------------------------
(* C11: the shape of the document *)

\* the document is not a dict, or holds something that is not a dict under
\* "parser", "arguments", "groups" or under a group's "arguments"
IllShaped(doc) ==
    \/ IsArray(doc)
    \/ IsArray(Get(doc, "parser", EmptyDict))
    \/ IsArrayItems(Get(doc, "arguments", <<>>))
    \/ IsArrayItems(Get(doc, "groups", <<>>))
    \/ /\ ~IsArrayItems(Get(doc, "groups", <<>>))
       /\ \E g \in DOMAIN Get(doc, "groups", <<>>) :
             IsArrayItems(Get(doc.groups[g].kwargs, "arguments", <<>>))

\* the failure the specification names for such a document; the code
\* raises no exception of this kind
SchemaShapeError == "SchemaShapeError"

\* C11: construction from a document that lacks the expected structure
\* fails, and fails with the schema shape error and no other kind of
\* failure
C11_IllShapedIsShapeError ==
    (Finished /\ IllShaped(loaded)) =>
        (pc = "failed" /\ ~returned /\ error = SchemaShapeError)

----------------------------------------------------------------------------
(* C12: the files of _load_json *)

\* C12: once _load_json has returned or raised, the file it opened is
\* closed, whether json.load decoded it or raised, and it opened a file
\* just when open(json_file) succeeded; the file object that the caller
\* passed is still open
C12_OpenedFileIsClosed ==
    pc # "load" =>
        /\ opened_file \in {"not opened", "closed"}
        /\ (opened_file = "closed") <=> (open(source).error = "none")
        /\ handle = IF source.kind = "handle" THEN "open" ELSE "none"

\* json.load raised on the content of a file that _load_json opened, and
\* the file is closed
C12_Witness ==
    /\ pc = "failed"
    /\ error = "JSONDecodeError"
    /\ source.kind = "str"
    /\ source.file
    /\ ~source.content.valid
    /\ tried = <<"file object", "filename">>
    /\ opened_file = "closed"

----------------------------------------------------------------------------
(* C13: what the object keeps of the document *)

\* the attributes of the object that are bound to the document: line 13
\* binds self.json_data to the dict that _load_json returned, and line 27
\* binds self._json_data_after_parsing to its copy when every step is done
References ==
    (IF pc # "load" /\ ~LoadFailed THEN {"json_data"} ELSE {})
    \cup (IF pc = "done" THEN {"_json_data_after_parsing"} ELSE {})

\* C13: the object that the constructor returned has no attribute bound to
\* the document it was built from
C13_NoReferenceToDocument ==
    (pc = "done" /\ returned) => References = {}

----------------------------------------------------------------------------
(* C14: the order of the cases of _load_json *)

\* C14: _load_json tries its cases in the order file object, filename,
\* str, the next one only when the one before did not apply: the filename
\* only for what is no file object, the str only for a str that names no
\* file.  A file object is read and nothing is opened for it.  A str that
\* names a file is decoded from the content of that file, which is what
\* the constructor gets or fails on, whatever the str itself decodes to.
C14_CasesInOrder ==
    pc # "load" =>
        /\ tried \in { <<"file object">>, <<"file object", "filename">>,
                       <<"file object", "filename", "str">> }
        /\ Len(tried) >= 2 => source.kind # "handle"
        /\ Len(tried) = 3 =>
              source.kind = "str" /\ ~source.long /\ ~source.file
        /\ source.kind = "handle" =>
              /\ tried = <<"file object">>
              /\ opened_file = "not opened"
              /\ IF source.text.valid
                 THEN ~LoadFailed /\ loaded = source.text.doc
                 ELSE LoadFailed /\ error = "JSONDecodeError"
        /\ (source.kind = "str" /\ ~source.long /\ source.file) =>
              /\ tried = <<"file object", "filename">>
              /\ opened_file = "closed"
              /\ IF source.content.valid
                 THEN ~LoadFailed /\ loaded = source.content.doc
                 ELSE LoadFailed /\ error = "JSONDecodeError"

\* a str that decodes to one document and names a file holding another:
\* the constructor got the document of the file
C14_Witness ==
    /\ pc # "load"
    /\ source.kind = "str"
    /\ source.file
    /\ source.text.valid
    /\ source.content.valid
    /\ source.text.doc # source.content.doc
    /\ tried = <<"file object", "filename">>
    /\ ~LoadFailed
    /\ loaded = source.content.doc

----------------------------------------------------------------------------
(* C15: the order of the steps of __init__ *)

\* the methods __init__ calls, in the order of lines 12 to 25
Steps == <<"_load_json", "_parse_parser", "_parse_arguments", "_parse_groups">>

StepOf(method) == CHOOSE i \in DOMAIN Steps : Steps[i] = method

\* where __init__ is after the step at p, unless the step raised
NextPc(p) ==
    CASE p = "load"      -> "parser"
      [] p = "parser"    -> "arguments"
      [] p = "arguments" -> "groups"
      [] p = "groups"    -> "done"

\* the actions registered with the parser itself, but for -h/--help, and
\* those registered with a group
FlatActions(p) ==
    { i \in DOMAIN p.actions : p.actions[i].group = 0 /\ p.actions[i] # HelpAction }
MemberActions(p) == { i \in DOMAIN p.actions : p.actions[i].group # 0 }

\* C15: __init__ goes through its steps in the order parser, arguments,
\* groups, done, or leaves with an exception; each method is called at most
\* once and in that order; nothing is registered with an object whose
\* ArgumentParser.__init__ has not run; flat arguments are registered in the
\* arguments step only and groups and their members in the groups step
\* only, so that every flat argument is registered before any group exists
C15_StepsInOrder ==
    /\ [](/\ \A i, k \in DOMAIN calls :
                i < k => StepOf(calls[i]) < StepOf(calls[k])
          /\ ~parser.initialized =>
                parser.actions = <<>> /\ parser.groups = <<>>
          /\ parser.initialized => "_parse_parser" \in Range(calls)
          /\ FlatActions(parser) # {} => "_parse_arguments" \in Range(calls)
          /\ (parser.groups # <<>> \/ MemberActions(parser) # {}) =>
                "_parse_groups" \in Range(calls) /\ pc \in {"done", "failed"}
          /\ \A i \in MemberActions(parser), k \in FlatActions(parser) : k < i)
    /\ [][/\ pc # pc' => pc' \in {NextPc(pc), "failed"}
          /\ parser.initialized # parser'.initialized => pc = "parser"
          /\ pc # "arguments" =>
                Cardinality(FlatActions(parser')) <= Cardinality(FlatActions(parser))
          /\ pc # "groups" => parser'.groups = parser.groups]_vars

\* all four methods were called and the object has a flat argument and a
\* group with a member
C15_Witness ==
    /\ pc = "done"
    /\ calls = Steps
    /\ FlatActions(parser) # {}
    /\ MemberActions(parser) # {}

----------------------------------------------------------------------------
(* C16: what _process_argument forwards *)

\* the argument definitions of a document in the order the constructor
\* goes through them: the flat ones, then the members of each group
RECURSIVE MembersFrom(_, _)
MembersFrom(doc, g) ==
    IF g > Len(GroupsOf(doc)) THEN <<>>
    ELSE MembersOf(doc, g) \o MembersFrom(doc, g + 1)
InOrder(doc) == FlatOf(doc) \o MembersFrom(doc, 1)

\* the option strings add_argument gives the action for names: none for
\* a positional
OptionStrings(names) ==
    IF Len(names) = 1 /\ names[1].dashes = 0 THEN <<>> ELSE names

\* C16: for every argument definition, flat or of a group,
\* _process_argument returns the name followed by the aliases in their
\* order (the name alone when there are none) and the definition without
\* "aliases", every other key kept with its value (nargs as C10 says); and
\* when the constructor returned for a document whose names do not
\* collide, the engine holds one action for each definition, in order,
\* with these names as its option strings
C16_NamesAndForwardedOptions ==
    (Finished /\ Loaded) =>
        /\ \A x \in DefinitionsOf(loaded) :
              LET e == DefinitionAt(loaded, x)
                  pa == process_argument(e.name, e.kwargs)
              IN  /\ pa.names = <<e.name>> \o AliasesOf(e)
                  /\ "aliases" \notin DOMAIN e.kwargs => pa.names = <<e.name>>
                  /\ DOMAIN pa.kwargs = DOMAIN e.kwargs \ {"aliases"}
                  /\ \A k \in DOMAIN pa.kwargs \ {"nargs"} :
                        pa.kwargs[k] = e.kwargs[k]
        /\ (pc = "done" /\ parser.initialized /\ ~Collides(loaded)) =>
              /\ Len(parser.actions) = 1 + Len(InOrder(loaded))
              /\ \A i \in DOMAIN InOrder(loaded) :
                    LET e == InOrder(loaded)[i]
                    IN  /\ parser.actions[i + 1].option_strings =
                              OptionStrings(<<e.name>> \o AliasesOf(e))
                        /\ parser.actions[i + 1].action =
                              Get(e.kwargs, "action", "store")

\* the constructor returned with a flat argument and a group member of
\* two aliases each, registered under the name and the aliases
C16_Witness ==
    /\ pc = "done"
    /\ FlatOf(loaded) # <<>>
    /\ FlatOf(loaded)[1].name = Long("d")
    /\ AliasesOf(FlatOf(loaded)[1]) = <<Short("d"), Long("dd")>>
    /\ Len(parser.actions) = 3
    /\ parser.actions[2].option_strings = <<Long("d"), Short("d"), Long("dd")>>
    /\ parser.actions[2].group = 0
    /\ parser.actions[3].option_strings = <<Short("c"), Long("cc"), Short("x")>>
    /\ parser.actions[3].group = 1

----------------------------------------------------------------------------
(* C17: the groups *)

\* the keys of a group definition that stand for something else than a
\* keyword argument of the group
ReservedKeys == {"arguments", "mutually_exclusive"}

\* the number of definitions the constructor goes through before the
\* members of group g
RECURSIVE Before(_, _)
Before(doc, g) ==
    IF g = 1 THEN Len(FlatOf(doc))
    ELSE Before(doc, g - 1) + Len(MembersOf(doc, g - 1))

\* C17: every group the constructor created was created from the group
\* definition of its position with the keyword arguments that are the
\* definition's keys other than "arguments" and "mutually_exclusive", each
\* with its value, and is mutually exclusive just when the definition has
\* "mutually_exclusive" true; when the constructor returned, there is a
\* group for every definition, and for names that do not collide the
\* action of every member belongs to the group of its definition and the
\* action of every flat argument to none
C17_GroupsFromDefinitions ==
    (Finished /\ Loaded) =>
        /\ Len(parser.groups) <= Len(GroupsOf(loaded))
        /\ \A g \in DOMAIN parser.groups :
              LET d == GroupsOf(loaded)[g].kwargs
                  group == parser.groups[g]
              IN  /\ DOMAIN group.kwargs = DOMAIN d \ ReservedKeys
                  /\ \A k \in DOMAIN group.kwargs : group.kwargs[k] = d[k]
                  /\ group.mutually_exclusive =
                        ("mutually_exclusive" \in DOMAIN d /\ d.mutually_exclusive)
        /\ (pc = "done" /\ parser.initialized) =>
              /\ Len(parser.groups) = Len(GroupsOf(loaded))
              /\ ~Collides(loaded) =>
                    /\ \A i \in DOMAIN FlatOf(loaded) :
                          parser.actions[i + 1].group = 0
                    /\ \A g \in DOMAIN GroupsOf(loaded) :
                          /\ parser.groups[g].members = Len(MembersOf(loaded, g))
                          /\ \A i \in DOMAIN MembersOf(loaded, g) :
                                parser.actions[Before(loaded, g) + i + 1].group = g

\* the constructor returned with a plain group that has a title and a
\* member, and a mutually exclusive group with a member
C17_Witness ==
    /\ pc = "done"
    /\ Len(parser.groups) = 2
    /\ ~parser.groups[1].mutually_exclusive
    /\ parser.groups[1].kwargs = [title |-> "t"]
    /\ parser.groups[2].mutually_exclusive
    /\ parser.groups[2].kwargs = EmptyDict
    /\ Len(parser.actions) = 3
    /\ parser.actions[2].group = 1
    /\ parser.actions[3].group = 2

----------------------------------------------------------------------------
(* C18: the other arguments of the constructor *)

\* C18: whatever *args and **kwargs the constructor is given besides the
\* source, the engine is constructed with the keys of "parser" and their
\* values and with nothing else, and the constructor ends, with the same
\* object or the same exception, as Construct(source) says, which knows
\* no other argument than the source
C18_OtherArgumentsUnused ==
    Finished =>
        /\ parser.initialized =>
              parser.options = Get(loaded, "parser", EmptyDict)
        /\ \A k \in DOMAIN init_kwargs :
              k \in DOMAIN parser.options =>
                  /\ k \in DOMAIN Get(loaded, "parser", EmptyDict)
                  /\ parser.options[k] = loaded.parser[k]
        /\ LET o == Construct(source)
           IN  o.pc = pc /\ o.error = error /\ o.parser = parser

\* the constructor was given the usage of the entry point and returned a
\* parser that was constructed without a usage
C18_Witness ==
    /\ pc = "done"
    /\ parser.initialized
    /\ init_kwargs = [usage |-> EntryPointUsage]
    /\ "usage" \notin DOMAIN parser.options
    /\ parser.options = [prog |-> "p"]
    /\ parse_error = "none"

====
